---- MODULE Spec2Model ----
(***************************************************************************)
(* Model of package packetsockdgram (packet_sock_dgram_udp_linux.go):      *)
(* the UDP header codec, the IPv4 / IPv6 read paths of the packet reader   *)
(* and the Conn life cycle (NewConn, Readfrom_, Close) over the process's  *)
(* file-descriptor table.                                                  *)
(*                                                                         *)
(* Go values are modelled as follows.                                      *)
(*   - a []byte is a record [null, off, len, arr]: arr holds the bytes of  *)
(*     the backing array from the slice's first element up to its          *)
(*     capacity, len is len(b), off the offset of the slice's first        *)
(*     element in the caller's buffer; cap(b) = Len(arr).                  *)
(*   - a nil pointer is NilPtr, a nil error is NoErr.                      *)
(*   - a call ends with kind "return" or with kind "panic" (a Go run-time  *)
(*     panic: index / slice bounds out of range, nil dereference, failed   *)
(*     type assertion).                                                    *)
(***************************************************************************)
EXTENDS Integers, Sequences, FiniteSets, TLC

VARIABLES
    conns,      \* reader slot -> NilPtr or the *Conn that NewConn returned
    openFds,    \* the descriptors that are open in the process's fd table
    faulty,     \* history: a NewConn call met a missing interface or a failed bind
    closed,     \* history: slot -> a Close on its Conn has returned nil
    in,         \* the arguments of the call being made / made last
    out,        \* what that call returned
    pc          \* "run", "staged" (inputs drawn, call pending), "done", "panicked"

vars == <<conns, openFds, faulty, closed, in, out, pc>>

-----------------------------------------------------------------------------
(* package err definition, lines 24-33; the errors of the callees *)

NoErr == "nil"
ErrNotDestPort == "ErrNotDestPort"
ErrInvalidConn == "ErrInvalidConn"
ErrNilHeader == "ErrNilHeader"
ErrHeaderTooShort == "ErrHeaderTooShort"
ErrNotIpv4 == "ErrNotIpv4"
ErrNotIpv6 == "ErrNotIpv6"
ErrPayloadLen == "ErrPayloadLen"
\* golang.org/x/net/ipv4 and ipv6: their own "header too short" error values
Ipv4ErrHeaderTooShort == "ipv4.errHeaderTooShort"
Ipv4ErrExtHeaderTooShort == "ipv4.errExtHeaderTooShort"
Ipv6ErrHeaderTooShort == "ipv6.errHeaderTooShort"
\* errno values the system calls hand back
EBADF == "EBADF"
EINTR == "EINTR"
ENOENT == "ENOENT"
ENODEV == "ENODEV"
EMFILE == "EMFILE"
Errno0 == "errno 0"

UDPHeaderLen == 8
Ipv4HeaderLen == 20
Ipv6HeaderLen == 40

NilPtr == [null |-> TRUE]

-----------------------------------------------------------------------------
(* []byte *)

NilSlice == [null |-> TRUE, off |-> 0, len |-> 0, arr |-> <<>>]

\* make([]byte, n, Len(a)) over the backing array a
MkSlice(a, n) == [null |-> FALSE, off |-> 0, len |-> n, arr |-> a]

cap(b) == Len(b.arr)

\* b[i] is in range
IndexOk(b, i) == 0 <= i /\ i < b.len

\* b[i]
At(b, i) == b.arr[i + 1]

\* the slice expression b[lo:hi] is in range: 0 <= lo <= hi <= cap(b)
SliceOk(b, lo, hi) == 0 <= lo /\ lo <= hi /\ hi <= cap(b)

\* b[lo:hi]
Sub(b, lo, hi) ==
    [null |-> FALSE, off |-> b.off + lo, len |-> hi - lo,
     arr |-> SubSeq(b.arr, lo + 1, Len(b.arr))]

\* the len(b) bytes a reader of the slice sees
Bytes(b) == SubSeq(b.arr, 1, b.len)

Min(a, b) == IF a < b THEN a ELSE b

-----------------------------------------------------------------------------
(* header codecs *)

\* htons, lines 35-37 (uint16 arithmetic)
htons(host) == (((host % 256) * 256) + (host \div 256)) % 65536

\* binary.BigEndian.Uint16(b[i:i+2]) as used at lines 73-76
Uint16LittleEndian(b, i) == At(b, i) + 256 * At(b, i + 1)
Uint16(b, i) == 256 * At(b, i) + At(b, i + 1)

\* ParseUDPHeader, lines 64-78: (*UdpHeader, error)
ParseUDPHeader(b) ==
    IF b.null THEN [h |-> NilPtr, err |-> ErrNilHeader]
    ELSE IF b.len < UDPHeaderLen THEN [h |-> NilPtr, err |-> ErrHeaderTooShort]
    ELSE [h |-> [SourcePort |-> Uint16(b, 0),
                 DestinationPort |-> Uint16(b, 2),
                 Length |-> Uint16(b, 4),
                 Checksum |-> Uint16(b, 6)],
          err |-> NoErr]

\* ipv4.ParseHeader(b) as called at line 127 (golang.org/x/net/ipv4, linux:
\* TotalLen is the big-endian 16-bit value at offset 2)
Ipv4ParseHeader(b) ==
    IF b.null \/ b.len < Ipv4HeaderLen
    THEN [h |-> NilPtr, err |-> Ipv4ErrHeaderTooShort]
    ELSE LET hdrlen == (At(b, 0) % 16) * 4 IN
         IF b.len < hdrlen
         THEN [h |-> NilPtr, err |-> Ipv4ErrExtHeaderTooShort]
         ELSE [h |-> [Version |-> At(b, 0) \div 16,
                      Len |-> hdrlen,
                      TotalLen |-> Uint16(b, 2),
                      Protocol |-> At(b, 9)],
               err |-> NoErr]

\* ipv6.ParseHeader(b) as called at line 172 (golang.org/x/net/ipv6)
Ipv6ParseHeader(b) ==
    IF b.len < Ipv6HeaderLen
    THEN [h |-> NilPtr, err |-> Ipv6ErrHeaderTooShort]
    ELSE [h |-> [Version |-> At(b, 0) \div 16,
                 TrafficClass |-> (At(b, 0) % 16) * 16 + (At(b, 1) \div 16),
                 PayloadLen |-> Uint16(b, 4),
                 NextHeader |-> At(b, 6)],
          err |-> NoErr]

-----------------------------------------------------------------------------
(* packet: handler, lines 82-203 *)

\* what a call hands back: the five results of readfrom, the buffer as the
\* call leaves it, and (history) whether a receive call was issued
Ret(n, h, uh, p, err, b, recv) ==
    [kind |-> "return", n |-> n, h |-> h, uh |-> uh, p |-> p, err |-> err,
     b |-> b, recv |-> recv]

\* the call does not return: a run-time panic
Panic(msg, b, recv) ==
    [kind |-> "panic", n |-> 0, h |-> NilPtr, uh |-> NilPtr, p |-> NilSlice,
     err |-> msg, b |-> b, recv |-> recv]

PanicIndex == "panic: index out of range"
PanicSlice == "panic: slice bounds out of range"
PanicNilDeref == "panic: nil pointer dereference"
PanicTypeAssert == "panic: interface conversion"

\* (c *handler) ok(), line 88: c is the address of the handler
ok(c) == c # NilPtr

\* syscall.Recvfrom(hdl.fd, b, syscall.MSG_TRUNC), lines 108 and 161:
\* EBADF on a descriptor that is not open; else the kernel's error kerr, or
\* the frame copied into the first len(b) bytes of b and n = the frame's
\* true length (MSG_TRUNC), whatever len(b) is
Recvfrom(fd, b, frame, kerr, fds) ==
    IF fd \notin fds THEN [n |-> -1, b |-> b, err |-> EBADF]
    ELSE IF kerr # NoErr THEN [n |-> -1, b |-> b, err |-> kerr]
    ELSE LET k == Min(Len(frame), b.len) IN
         [n |-> Len(frame),
          b |-> [b EXCEPT !.arr = SubSeq(frame, 1, k) \o SubSeq(b.arr, k + 1, Len(b.arr))],
          err |-> NoErr]

\* total header len, line 119
totalHeaderlen == Ipv4HeaderLen + UDPHeaderLen

\* ip version check, lines 114 and 167
VersionOk4(b0) == b0 = 69
VersionOk6(b0) == b0 = 96

\* payload size, lines 141-149: lb is len(b)
payloadlen(TotalLen, lb) ==
    IF TotalLen < lb THEN TotalLen - totalHeaderlen ELSE lb - totalHeaderlen

\* the length check of line 191
LenMismatchShortOnly(n, m) == n < m
LenMismatch(n, m) == n # m

\* the port comparison of lines 154 and 198
PortMismatchSource(rcvport, uh) == rcvport # uh.SourcePort
PortMismatch(rcvport, uh) == rcvport # uh.DestinationPort

\* readFromIpv4, lines 106-159
readFromIpv4(hdl, buf, frame, kerr, fds) ==
    LET r == Recvfrom(hdl.fd, buf, frame, kerr, fds)
        b == r.b
        n == r.n
    IN
    IF r.err # NoErr THEN Ret(-1, NilPtr, NilPtr, NilSlice, r.err, b, TRUE)
    ELSE IF ~IndexOk(b, 0) THEN Panic(PanicIndex, b, TRUE)
    ELSE IF ~VersionOk4(At(b, 0)) THEN Ret(n, NilPtr, NilPtr, NilSlice, ErrNotIpv4, b, TRUE)
    ELSE IF n < totalHeaderlen THEN Ret(n, NilPtr, NilPtr, NilSlice, ErrHeaderTooShort, b, TRUE)
    ELSE LET ip == Ipv4ParseHeader(b) IN
    IF ip.err # NoErr THEN Ret(n, NilPtr, NilPtr, NilSlice, ip.err, b, TRUE)
    ELSE LET iph == [Ipv4Header |-> ip.h, Ipv6Header |-> NilPtr] IN
    IF ~SliceOk(b, Ipv4HeaderLen, b.len) THEN Panic(PanicSlice, b, TRUE)
    ELSE LET u == ParseUDPHeader(Sub(b, Ipv4HeaderLen, b.len)) IN
    IF u.err # NoErr THEN Ret(n, iph, NilPtr, NilSlice, u.err, b, TRUE)
    ELSE LET pl == payloadlen(ip.h.TotalLen, b.len) IN
    IF ~SliceOk(b, totalHeaderlen, totalHeaderlen + pl) THEN Panic(PanicSlice, b, TRUE)
    ELSE LET pb == Sub(b, totalHeaderlen, totalHeaderlen + pl) IN
    IF hdl.sa.family # "inet4" THEN Panic(PanicTypeAssert, b, TRUE)
    ELSE IF PortMismatch(hdl.sa.Port, u.h) THEN Ret(n, iph, u.h, pb, ErrNotDestPort, b, TRUE)
    ELSE Ret(n, iph, u.h, pb, NoErr, b, TRUE)

\* readFromIpv6, lines 160-203
readFromIpv6(hdl, buf, frame, kerr, fds) ==
    LET r == Recvfrom(hdl.fd, buf, frame, kerr, fds)
        b == r.b
        n == r.n
    IN
    IF r.err # NoErr THEN Ret(-1, NilPtr, NilPtr, NilSlice, r.err, b, TRUE)
    ELSE IF ~IndexOk(b, 0) THEN Panic(PanicIndex, b, TRUE)
    ELSE IF ~VersionOk6(At(b, 0)) THEN Ret(n, NilPtr, NilPtr, NilSlice, ErrNotIpv6, b, TRUE)
    ELSE LET ip == Ipv6ParseHeader(b) IN
    IF ip.err # NoErr THEN Ret(n, NilPtr, NilPtr, NilSlice, ip.err, b, TRUE)
    ELSE LET iph == [Ipv4Header |-> NilPtr, Ipv6Header |-> ip.h]
             startudp6h == Ipv6HeaderLen
             endudp6h == startudp6h + UDPHeaderLen
         IN
    IF ~SliceOk(b, startudp6h, b.len) THEN Panic(PanicSlice, b, TRUE)
    ELSE LET u == ParseUDPHeader(Sub(b, startudp6h, b.len)) IN
    IF u.err # NoErr THEN Ret(n, iph, NilPtr, NilSlice, u.err, b, TRUE)
    ELSE LET m == Ipv6HeaderLen + ip.h.PayloadLen IN
    IF LenMismatch(n, m) THEN Ret(n, iph, NilPtr, NilSlice, ErrPayloadLen, b, TRUE)
    ELSE IF ~SliceOk(b, endudp6h, n) THEN Panic(PanicSlice, b, TRUE)
    ELSE LET pb == Sub(b, endudp6h, n) IN
    IF hdl.sa.family # "inet6" THEN Panic(PanicTypeAssert, b, TRUE)
    ELSE IF PortMismatch(hdl.sa.Port, u.h) THEN Ret(n, iph, u.h, pb, ErrNotDestPort, b, TRUE)
    ELSE Ret(n, iph, u.h, pb, NoErr, b, TRUE)

\* (hdl *handler) readfrom, lines 91-104: hp is the receiver, the address of
\* a handler (NilPtr or [handler |-> the handler it points to])
readfrom(hp, buf, frame, kerr, fds) ==
    IF ~ok(hp) THEN Ret(-1, NilPtr, NilPtr, NilSlice, ErrInvalidConn, buf, FALSE)
    ELSE IF hp.handler.isIpv4 THEN readFromIpv4(hp.handler, buf, frame, kerr, fds)
    ELSE readFromIpv6(hp.handler, buf, frame, kerr, fds)

-----------------------------------------------------------------------------
(* endpoint: Conn, lines 207-279 *)

\* the Conn of lines 268-273
MkConn(fd, sa, isIpv4) ==
    [fd |-> fd, sa |-> sa, isIpv4 |-> isIpv4,
     handler |-> [fd |-> fd, sa |-> sa, isIpv4 |-> isIpv4]]

\* &c.handler: the address of a field of *c; evaluating it on a nil c panics
HandlerOf(c) == [handler |-> c.handler]

\* (c *Conn) Readfrom_, lines 277-279
Readfrom_(c, buf, frame, kerr, fds) ==
    IF c = NilPtr THEN Panic(PanicNilDeref, buf, FALSE)
    ELSE readfrom(HandlerOf(c), buf, frame, kerr, fds)

-----------------------------------------------------------------------------
(* bounds and the inputs drawn within them *)

MaxUdpLen == 9
MaxLen == 50
CapExtra == 4
NumReaders == 2
NumFds == 2

ByteVals == {0, 53, 255}

\* every byte string of length 0..n over ByteVals
SeqsUpTo(n) == UNION {[1..k -> ByteVals] : k \in 0..n}

\* the buffers handed to ParseUDPHeader: nil, or k bytes (cap = len)
UdpBuffers == {NilSlice} \cup {MkSlice(a, Len(a)) : a \in SeqsUpTo(MaxUdpLen)}

\* buffer and frame lengths: around the header boundaries 20, 28, 40, 48
Sizes == {0, 19, 20, 27, 28, 29, 39, 40, 47, 48} \cup (49..MaxLen)

\* a caller's scratch buffer: lb bytes of an array of cb, holding what an
\* earlier use left there (0xAA in every byte)
Buffer(lb, cb) == MkSlice([i \in 1..cb |-> 170], lb)
Buffers == UNION {{Buffer(lb, lb), Buffer(lb, lb + CapExtra)} : lb \in Sizes}

Ports == {5353, 53}
SrcPort == 256 * 18 + 52

\* byte i of an IPv4/UDP frame: first byte b0, total length decl (offset 2),
\* protocol 17, UDP header at 20..27, payload bytes after it
FrameByte4(i, b0, decl, dport, n) ==
    CASE i = 0 -> b0
      [] i = 2 -> decl \div 256
      [] i = 3 -> decl % 256
      [] i = 9 -> 17
      [] i = 20 -> SrcPort \div 256
      [] i = 21 -> SrcPort % 256
      [] i = 22 -> dport \div 256
      [] i = 23 -> dport % 256
      [] i = 25 -> (n - 20) % 256
      [] i >= 28 -> 1 + (i % 7)
      [] OTHER -> 0

\* byte i of an IPv6/UDP frame: first byte b0, payload length decl (offset
\* 4), next header 17, UDP header at 40..47, payload bytes after it
FrameByte6(i, b0, decl, dport, n) ==
    CASE i = 0 -> b0
      [] i = 4 -> decl \div 256
      [] i = 5 -> decl % 256
      [] i = 6 -> 17
      [] i = 40 -> SrcPort \div 256
      [] i = 41 -> SrcPort % 256
      [] i = 42 -> dport \div 256
      [] i = 43 -> dport % 256
      [] i = 45 -> (n - 40) % 256
      [] i >= 48 -> 1 + (i % 7)
      [] OTHER -> 0

\* the n bytes of a frame on the wire
Frame4(b0, decl, dport, n) == [i \in 1..n |-> FrameByte4(i - 1, b0, decl, dport, n)]
Frame6(b0, decl, dport, n) == [i \in 1..n |-> FrameByte6(i - 1, b0, decl, dport, n)]

\* first bytes: 0x45, 0x46 (IPv4 with options); 0x60, 0x6E (IPv6 with the
\* traffic class's high bits set)
Frames4 ==
    {Frame4(b0, decl, dport, n) :
        b0 \in {69, 70}, decl \in Sizes \cup {300}, dport \in Ports, n \in Sizes}
Frames6 ==
    {Frame6(b0, decl, dport, n) :
        b0 \in {96, 110},
        decl \in {s - Ipv6HeaderLen : s \in {t \in Sizes : t >= Ipv6HeaderLen}} \cup {300},
        dport \in Ports, n \in Sizes}
Frames == Frames4 \cup Frames6

\* the local addresses handed to NewConn
Inet4(port) == [family |-> "inet4", Port |-> port]
Inet6(port) == [family |-> "inet6", Port |-> port]
OtherSa == [family |-> "other", Port |-> 0]
Sockaddrs == {Inet4(p) : p \in Ports} \cup {Inet6(p) : p \in Ports} \cup {OtherSa}

\* isIpv4, lines 225-234
isIpv4(sa) == sa.family = "inet4"

Readers == 1..NumReaders

\* the descriptors the process may hold besides 0, 1, 2
Fds == 3..(2 + NumFds)

NoOut == [kind |-> "none"]

\* syscall.Socket, line 251: the lowest descriptor that is not open
LowestFree(fds) == CHOOSE f \in Fds \ fds : \A g \in Fds \ fds : f <= g

\* the descriptor the first socket of a process gets
FirstFd == LowestFree({})

-----------------------------------------------------------------------------
(* SpecUDP: ParseUDPHeader applied to every buffer of UdpBuffers *)

InitUDP ==
    /\ conns = [r \in Readers |-> NilPtr]
    /\ openFds = {}
    /\ faulty = FALSE
    /\ closed = [r \in Readers |-> FALSE]
    /\ in \in {[op |-> "ParseUDPHeader", b |-> b, b0 |-> b] : b \in UdpBuffers}
    /\ out = NoOut
    /\ pc = "staged"

\* the call: no statement of lines 64-78 stores into b
ParseStep ==
    /\ pc = "staged"
    /\ in.op = "ParseUDPHeader"
    /\ out' = ParseUDPHeader(in.b)
    /\ pc' = "done"
    /\ UNCHANGED <<conns, openFds, faulty, closed, in>>

SpecUDP == InitUDP /\ [][ParseStep]_vars

-----------------------------------------------------------------------------
(* SpecRead: one read on a reader NewConn has returned, for every buffer,  *)
(* frame and receive error                                                 *)

InitRead ==
    /\ \E sa \in Sockaddrs :
          conns = [r \in Readers |-> IF r = 1 THEN MkConn(FirstFd, sa, isIpv4(sa)) ELSE NilPtr]
    /\ openFds = {FirstFd}
    /\ faulty = FALSE
    /\ closed = [r \in Readers |-> FALSE]
    /\ \E b \in Buffers :
          \/ \E f \in Frames : in = [op |-> "Readfrom_", r |-> 1, b |-> b, frame |-> f, kerr |-> NoErr]
          \/ in = [op |-> "Readfrom_", r |-> 1, b |-> b, frame |-> <<>>, kerr |-> EINTR]
    /\ out = NoOut
    /\ pc = "staged"

ReadStaged ==
    /\ pc = "staged"
    /\ in.op = "Readfrom_"
    /\ out' = Readfrom_(conns[in.r], in.b, in.frame, in.kerr, openFds)
    /\ pc' = "done"
    /\ UNCHANGED <<conns, openFds, faulty, closed, in>>

SpecRead == InitRead /\ [][ReadStaged]_vars

-----------------------------------------------------------------------------
(* Spec: the life cycle of the Conns of a process.  Each reader slot is a  *)
(* variable of the calling program that holds the *Conn NewConn returned.  *)

\* errors.Is(err, os.ErrNotExist) for a syscall.Errno, line 264
IsNotExist(errno) == errno = ENOENT

\* newConn, lines 239-275.  intf is what net.InterfaceByName handed back
\* (NilPtr when the interface does not exist; the error is overwritten at
\* line 251), sockErr the result of syscall.Socket, bindErrno the Errno of
\* the bind call.  fds is the descriptor table after the call.
newConn(sa, is4, intf, sockErr, bindErrno, fds) ==
    IF sockErr # NoErr
    THEN [kind |-> "return", conn |-> NilPtr, err |-> sockErr, fds |-> fds]
    ELSE LET fd == LowestFree(fds)
             opened == fds \cup {fd}
         IN
         IF intf = NilPtr
         THEN [kind |-> "panic", conn |-> NilPtr, err |-> PanicNilDeref, fds |-> opened]
         ELSE IF IsNotExist(bindErrno)
         THEN [kind |-> "return", conn |-> NilPtr, err |-> bindErrno, fds |-> opened]
         ELSE [kind |-> "return", conn |-> MkConn(fd, sa, is4), err |-> NoErr, fds |-> opened]

\* (c *Conn) Close, lines 215-220; syscall.Close gives EBADF on a
\* descriptor that is not open
Close(c, fds) ==
    IF c = NilPtr THEN [kind |-> "panic", err |-> PanicNilDeref, fds |-> fds]
    ELSE IF ~ok(HandlerOf(c)) THEN [kind |-> "return", err |-> ErrInvalidConn, fds |-> fds]
    ELSE IF c.fd \in fds THEN [kind |-> "return", err |-> NoErr, fds |-> fds \ {c.fd}]
    ELSE [kind |-> "return", err |-> EBADF, fds |-> fds]

LifeSockaddrs == {Inet4(5353), Inet6(5353), OtherSa}
LifeBuffers == {Buffer(MaxLen, MaxLen)}
LifeFrames == {Frame4(69, 30, 5353, 30), Frame6(96, 9, 5353, 49)}

After(kind) == IF kind = "panic" THEN "panicked" ELSE "run"

Init ==
    /\ conns = [r \in Readers |-> NilPtr]
    /\ openFds = {}
    /\ faulty = FALSE
    /\ closed = [r \in Readers |-> FALSE]
    /\ in = [op |-> "none"]
    /\ out = NoOut
    /\ pc = "run"

\* slot r := NewConn(sa, ifname), lines 223-237
NewConnCall(r) ==
    /\ pc = "run"
    /\ conns[r] = NilPtr
    /\ \E sa \in LifeSockaddrs, ifExists \in BOOLEAN,
          sockErr \in {NoErr, EMFILE}, bindErrno \in {Errno0, ENOENT, ENODEV} :
          /\ (Fds \ openFds = {}) => sockErr = EMFILE
          /\ LET intf == IF ifExists THEN [Index |-> 2] ELSE NilPtr
                 res == newConn(sa, isIpv4(sa), intf, sockErr, bindErrno, openFds)
             IN
             /\ in' = [op |-> "NewConn", r |-> r, sa |-> sa, ifExists |-> ifExists,
                       sockErr |-> sockErr, bindErrno |-> bindErrno]
             /\ out' = [kind |-> res.kind, conn |-> res.conn, err |-> res.err]
             /\ conns' = [conns EXCEPT ![r] = res.conn]
             /\ openFds' = res.fds
             /\ faulty' = (faulty \/ (sockErr = NoErr /\ (~ifExists \/ bindErrno # Errno0)))
             /\ pc' = After(res.kind)
    /\ UNCHANGED closed

\* slot r's Close()
CloseCall(r) ==
    /\ pc = "run"
    /\ LET res == Close(conns[r], openFds) IN
       /\ in' = [op |-> "Close", r |-> r, afterClose |-> closed[r]]
       /\ out' = [kind |-> res.kind, err |-> res.err,
                  released |-> openFds \ res.fds]
       /\ openFds' = res.fds
       /\ closed' = [closed EXCEPT ![r] = @ \/ (res.kind = "return" /\ res.err = NoErr)]
       /\ pc' = After(res.kind)
    /\ UNCHANGED <<conns, faulty>>

\* slot r's Readfrom_(b), with the frame or error the kernel has for it
ReadCall(r) ==
    /\ pc = "run"
    /\ \E b \in LifeBuffers, f \in LifeFrames, kerr \in {NoErr, EINTR} :
          LET res == Readfrom_(conns[r], b, f, kerr, openFds) IN
          /\ in' = [op |-> "Readfrom_", r |-> r, b |-> b, frame |-> f, kerr |-> kerr,
                    afterClose |-> closed[r]]
          /\ out' = res
          /\ pc' = After(res.kind)
    /\ UNCHANGED <<conns, openFds, faulty, closed>>

Next == \E r \in Readers : NewConnCall(r) \/ CloseCall(r) \/ ReadCall(r)

Spec == Init /\ [][Next]_vars

-----------------------------------------------------------------------------
(* what the properties below speak of *)

\* a Readfrom_ call has ended
RdDone == in.op = "Readfrom_" /\ out.kind # "none"

\* the reader the call was made on
Rdr == conns[in.r]

\* the call's receive call was issued and handed back a frame
RecvOk == RdDone /\ out.recv /\ ~(out.kind = "return" /\ out.n = -1)

\* bytesRead: the true length of the frame received
BytesRead == Len(in.frame)

\* byte i of the caller's buffer after the call
BufByte(i) == out.b.arr[i + 1]

\* the big-endian 16-bit value at offset i of the caller's buffer
BufWord(i) == BufByte(i) * 256 + BufByte(i + 1)

-----------------------------------------------------------------------------
(* UDP header codec *)

\* C8 as stated: ParseUDPHeader fails with ErrHeaderTooShort and no header
\* on every buffer shorter than 8 bytes; on 8 or more bytes it returns the
\* big-endian 16-bit values at offsets 0, 2, 4, 6; the input is unchanged.
C8_AnyShortBufferIsHeaderTooShort ==
    (pc = "done" /\ in.op = "ParseUDPHeader") =>
        /\ in.b = in.b0
        /\ in.b.len < 8 => (out.err = ErrHeaderTooShort /\ out.h = NilPtr)
        /\ in.b.len >= 8 =>
              /\ out.err = NoErr
              /\ out.h = [SourcePort |-> in.b.arr[1] * 256 + in.b.arr[2],
                          DestinationPort |-> in.b.arr[3] * 256 + in.b.arr[4],
                          Length |-> in.b.arr[5] * 256 + in.b.arr[6],
                          Checksum |-> in.b.arr[7] * 256 + in.b.arr[8]]

\* C8 amended: a nil buffer fails with ErrNilHeader and no header; every
\* non-nil buffer shorter than 8 bytes fails with ErrHeaderTooShort and no
\* header; 8 or more bytes decode to the big-endian 16-bit values at
\* offsets 0, 2, 4, 6; the input is unchanged.
C8_UdpHeaderCodec ==
    (pc = "done" /\ in.op = "ParseUDPHeader") =>
        /\ in.b = in.b0
        /\ in.b.null => (out.err = ErrNilHeader /\ out.h = NilPtr)
        /\ (~in.b.null /\ in.b.len < 8) => (out.err = ErrHeaderTooShort /\ out.h = NilPtr)
        /\ (~in.b.null /\ in.b.len >= 8) =>
              /\ out.err = NoErr
              /\ out.h = [SourcePort |-> in.b.arr[1] * 256 + in.b.arr[2],
                          DestinationPort |-> in.b.arr[3] * 256 + in.b.arr[4],
                          Length |-> in.b.arr[5] * 256 + in.b.arr[6],
                          Checksum |-> in.b.arr[7] * 256 + in.b.arr[8]]

\* a 9-byte buffer 00 35 ff 00 00 ff 35 35 .. decoded to 53, 65280, 255, 13621
C8_Witness ==
    /\ pc = "done" /\ in.op = "ParseUDPHeader"
    /\ in.b.len = 9
    /\ SubSeq(in.b.arr, 1, 8) = <<0, 53, 255, 0, 0, 255, 53, 53>>
    /\ out.err = NoErr
    /\ out.h = [SourcePort |-> 53, DestinationPort |-> 65280, Length |-> 255, Checksum |-> 13621]

-----------------------------------------------------------------------------
(* IPv4 path *)

\* the IPv4 path handed back a UDP header: the frame passed the version
\* check, the 28-byte check and both header decodes, and a payload was cut
Past4 == RdDone /\ Rdr # NilPtr /\ Rdr.isIpv4 /\ out.kind = "return" /\ out.uh # NilPtr

\* C4 as stated, for the frames the buffer holds whole (bytesRead <=
\* len(buffer)): on the IPv4 path the payload is buffer[28 : 28+payloadLen]
\* with payloadLen = min(declaredTotalLen, bytesRead) - 28, bytesRead being
\* what the receive call returned.
C4_PayloadIsMinOfDeclaredAndBytesRead ==
    (Past4 /\ BytesRead <= out.b.len) =>
        /\ out.p.off = 28
        /\ out.p.len = Min(out.h.Ipv4Header.TotalLen, out.n) - 28

\* the IPv4 path got as far as computing the payload length (line 141):
\* it handed back a UDP header, or the slice expression of line 151 panicked
AtPayload4 ==
    /\ RdDone /\ Rdr # NilPtr /\ Rdr.isIpv4
    /\ \/ out.kind = "return" /\ out.uh # NilPtr
       \/ out.kind = "panic" /\ out.err = PanicSlice

\* C5 as stated: on the IPv4 path the computed payload length is never
\* negative, never exceeds bytesRead - 28, and 28 + payloadLen never exceeds
\* the buffer's capacity.
C5_PayloadLenWithinBounds ==
    AtPayload4 =>
        LET pl == payloadlen(BufWord(2), out.b.len) IN
        /\ pl >= 0
        /\ pl <= BytesRead - 28
        /\ 28 + pl <= cap(out.b)

-----------------------------------------------------------------------------
(* IPv6 path *)

\* the call took the IPv6 path and its receive call handed back a frame
On6 == RecvOk /\ Rdr # NilPtr /\ ~Rdr.isIpv4

\* the frame passed the version check of line 167 and the IPv6 header decoded
Decoded6 == On6 /\ out.b.len >= 40 /\ BufByte(0) = 96

\* the decoded IPv6 header, alone in an IpHeader
IpHeader6 ==
    [Ipv4Header |-> NilPtr,
     Ipv6Header |-> [Version |-> 6, TrafficClass |-> BufByte(1) \div 16,
                     PayloadLen |-> BufWord(4), NextHeader |-> BufByte(6)]]

\* fails with ErrPayloadLen, the IP header alongside, no UDP header or payload
PayloadLenFailure ==
    /\ out.kind = "return"
    /\ out.err = ErrPayloadLen
    /\ out.n = BytesRead
    /\ out.h = IpHeader6
    /\ out.uh = NilPtr
    /\ out.p = NilSlice

\* C6 as stated: on the IPv6 path, for every frame that passes the version
\* check and whose IPv6 header decodes, bytesRead # 40 + declaredPayloadLength
\* makes the read fail with ErrPayloadLen, returning the IP header and no
\* payload.
C6_AnyLengthMismatchIsPayloadLen ==
    (Decoded6 /\ BytesRead # 40 + BufWord(4)) => PayloadLenFailure

\* C6 amended: the same, for every frame that passes the version check and
\* whose IPv6 header and UDP header both decode (the buffer holds the 48
\* header bytes); with a buffer of 40..47 bytes the read fails with
\* ErrHeaderTooShort before the length check.
C6_LengthMismatchAfterBothDecodes ==
    /\ (Decoded6 /\ out.b.len >= 48 /\ BytesRead # 40 + BufWord(4)) => PayloadLenFailure
    /\ (Decoded6 /\ out.b.len < 48) =>
          (out.kind = "return" /\ out.err = ErrHeaderTooShort /\ out.h = IpHeader6
           /\ out.uh = NilPtr /\ out.p = NilSlice)

\* a frame longer than its header declares, refused with ErrPayloadLen
C6_Witness ==
    /\ Decoded6 /\ out.b.len >= 48
    /\ BytesRead > 40 + BufWord(4)
    /\ BufWord(4) >= 8
    /\ PayloadLenFailure

\* C9 as stated: the IPv6 path fails with ErrNotIpv6 if and only if the top
\* nibble of the first received byte is not 6.
C9_VersionCheckReadsTopNibbleOnly ==
    (On6 /\ out.b.len >= 1) =>
        ((out.kind = "return" /\ out.err = ErrNotIpv6) <=> (BufByte(0) \div 16 # 6))

\* C10 as stated: the IPv6 path never attempts a slice whose upper bound is
\* below 48 or beyond the buffer: the read returns an error, or a payload
\* buffer[48:bytesRead] with 48 <= bytesRead <= len(buffer).
C10_SliceFailsClosed ==
    (On6 /\ Rdr.sa.family = "inet6") =>
        /\ out.err # PanicSlice
        /\ (out.kind = "return" /\ out.err = NoErr) =>
              /\ out.p.off = 48
              /\ out.p.len = BytesRead - 48
              /\ 48 <= BytesRead
              /\ BytesRead <= out.b.len

-----------------------------------------------------------------------------
(* destination-port filter *)

\* the reader's bound local address carries a port
HasPort == Rdr # NilPtr /\ Rdr.sa.family \in {"inet4", "inet6"}

\* a correctly formed frame: every step before the port filter accepts it.
\* IPv4: first byte 0x45, the 28 header bytes received and in the buffer, the
\* declared total length not below the headers.  IPv6: first byte 0x60, the
\* 48 header bytes in the buffer, bytesRead = 40 + the declared payload
\* length, and buffer[48:bytesRead] within the buffer's capacity.
WellFormed ==
    /\ RecvOk /\ HasPort
    /\ IF Rdr.isIpv4
       THEN /\ out.b.len >= 28 /\ BytesRead >= 28
            /\ BufByte(0) = 69
            /\ Min(BufWord(2), out.b.len) >= 28
       ELSE /\ out.b.len >= 48
            /\ BufByte(0) = 96
            /\ BytesRead = 40 + BufWord(4)
            /\ 48 <= BytesRead /\ BytesRead <= cap(out.b)

\* where the UDP destination port sits in the frame
DportOff == IF Rdr.isIpv4 THEN 22 ELSE 42

\* the frame with its UDP destination port set to port
WithDport(frame, port) ==
    [i \in 1..Len(frame) |->
        IF i = DportOff + 1 THEN port \div 256
        ELSE IF i = DportOff + 2 THEN port % 256
        ELSE frame[i]]

\* what the same read hands back when the frame is addressed to the bound port
OnMatch == Readfrom_(Rdr, in.b, WithDport(in.frame, Rdr.sa.Port), in.kerr, openFds)

-----------------------------------------------------------------------------
(* life cycle *)

\* C1 as stated, for the runs in which every NewConn found its interface and
\* bound its socket: every read issued after a successful Close fails with
\* ErrInvalidConn, returns no parsed structures and issues no receive call.
C1_ReadAfterCloseIsInvalidConn ==
    (~faulty /\ in.op = "Readfrom_" /\ in.afterClose) =>
        /\ out.kind = "return"
        /\ out.err = ErrInvalidConn
        /\ out.h = NilPtr /\ out.uh = NilPtr /\ out.p = NilSlice
        /\ ~out.recv

\* C2 as stated, for the runs in which every NewConn found its interface and
\* bound its socket: every Close made after a successful Close of the same
\* reader returns an error and releases no descriptor again.
C2_CloseReleasesOnce ==
    (~faulty /\ in.op = "Close" /\ in.afterClose) =>
        /\ out.kind = "return"
        /\ out.err # NoErr
        /\ out.released = {}

\* C3 as stated: when the interface does not exist or the bind call fails,
\* NewConn returns an error and no reader; a reader is returned only when
\* the socket was opened and bound.
C3_ConstructionAllOrNothing ==
    (in.op = "NewConn") =>
        /\ (~in.ifExists \/ in.bindErrno # Errno0) =>
              (out.kind = "return" /\ out.err # NoErr /\ out.conn = NilPtr)
        /\ (out.conn # NilPtr) =>
              (in.ifExists /\ in.sockErr = NoErr /\ in.bindErrno = Errno0)

====
